---- MODULE Spec2Model ----
(***************************************************************************)
(* Model of router/src/server.rs: the HTTP adapters of the text-generation *)
(* router.  Every request is followed from its arrival through its handler *)
(* (generate, generate_stream_internal, compat_generate, completions,      *)
(* chat_completions, vertex_compatibility) down to its HTTP response or to *)
(* the events of its server-sent event stream.  The Infer facade that the  *)
(* handlers call (admission semaphore, validation, event channel) is not   *)
(* part of server.rs; it is modelled as the specification describes it,    *)
(* and so are the queue and the batching scheduler that `run` starts with  *)
(* Infer::new.                                                              *)
(***************************************************************************)
EXTENDS Integers, Sequences, FiniteSets, TLC

\* ---------------------------------------------------------------- bounds
MaxItems == 3
MaxGeneratedTokens == 1
MaxInstances == 2
MaxBestOf == 2
MaxTokensAsked == 1
MaxHealthLog == 4
PenaltyScale == 1
MaxTools == 2
MaxChars == 2
MaxEntries == 2
MaxRequests == 3

\* ------------------------------------------------------ program constants
MaxConcurrentRequests == 2
DefaultMaxNewTokens == 100

\* The batching parameters `run` hands to Validation::new and Infer::new
max_input_length == 2
max_total_tokens == 5
max_batch_prefill_tokens == 3
max_batch_total_tokens == 7
max_waiting_tokens == 2
max_batch_size == 2
waiting_served_ratio == 2
speculate == 1

\* Option::None of an Option<usize> or Option<u32> field
None == -1

\* An Option<bool>, Option<f32>, Option<Vec<_>> or Option<enum> field is the
\* set of its values: empty for Option::None, one element for Some(x).
Absent == {}

Some(x) == {x}

Unwrap(o) == CHOOSE x \in o : TRUE

Min(a, b) == IF a < b THEN a ELSE b

\* ------------------------------------------------------------- variables
VARIABLES
    http,         \* the HTTP request being served (NoRequest before arrival)
    pc,           \* position of the request in its handler / response stream
    available,    \* permits left in the admission semaphore
    permit,       \* number of admission permits owned by the request
    others,       \* permits owned by the other requests in flight
    everHeld,     \* history: the request owned a permit at some moment
    gens,         \* the calls of `generate` the request has made
    index,        \* `index` of generate_stream_internal
    end_reached,  \* `end_reached` of generate_stream_internal
    error,        \* `error` of generate_stream_internal
    received,     \* history: items the stream has read from the channel
    events,       \* events the stream has yielded, in order
    resp,         \* the HTTP response (NoResponse before it is written)
    metrics,      \* what the request added to the tgi_request_* counters
    generation_health,  \* the AtomicBool shared by Health and the scheduler
    shards_up,    \* the shards answer a prefill at this moment
    health_log,   \* history: the health checks and decode steps so far
    posted,       \* a body posted to /v1/chat/completions or /tokenize
    built,        \* what chat_completions made of the body before generating
    answered,     \* the answer of the handler to the body
    queue,        \* the entries waiting in the queue, oldest first
    next_id,      \* the id the queue gives to the next entry
    batch,        \* the entries resident in shard memory
    waiting_tokens,    \* decode steps since the last merge of a new batch
    requires_padding,  \* ShardInfo.requires_padding
    phase         \* the step the scheduler takes next

\* The variables of the queue and of the batching scheduler.
batching == <<queue, next_id, batch, waiting_tokens, requires_padding, phase>>

\* The variables of the health route, of the request conversions and of the
\* scheduler, which the life of a generation request leaves alone.
aside == <<generation_health, shards_up, health_log, posted, built, answered, batching>>

\* The variables of the life of a generation request.
serving == <<http, pc, available, permit, others, everHeld, gens, index,
             end_reached, error, received, events, resp, metrics>>

vars == <<serving, aside>>

\* --------------------------------------------------------------- requests
BestOfValues == {None} \cup (0..MaxBestOf)

MaxTokensValues == {None} \cup (0..MaxTokensAsked)

OptionBool == {Absent, Some(TRUE), Some(FALSE)}

NoRequest == [route |-> "none", stream |-> FALSE, best_of |-> None,
              decoder_input_details |-> FALSE, details |-> FALSE,
              suffix |-> FALSE, template_ok |-> TRUE, instances |-> 0,
              max_tokens |-> None, return_full_text |-> Absent,
              default_return_full_text |-> FALSE]

\* The bodies a client can post, route by route; the fields a route does not
\* read keep their defaults.  default_return_full_text is the Extension<bool>
\* of the deployment, which only compat_generate reads.
HttpRequests ==
    [route : {"/generate", "/generate_stream"}, stream : {FALSE},
     best_of : BestOfValues, decoder_input_details : BOOLEAN, details : BOOLEAN,
     suffix : {FALSE}, template_ok : {TRUE}, instances : {0},
     max_tokens : {None}, return_full_text : {Absent},
     default_return_full_text : {FALSE}]
    \cup
    [route : {"/"}, stream : BOOLEAN,
     best_of : BestOfValues, decoder_input_details : BOOLEAN, details : BOOLEAN,
     suffix : {FALSE}, template_ok : {TRUE}, instances : {0},
     max_tokens : {None}, return_full_text : OptionBool,
     default_return_full_text : BOOLEAN]
    \cup
    [route : {"/v1/completions"}, stream : BOOLEAN,
     best_of : {None}, decoder_input_details : {FALSE}, details : {FALSE},
     suffix : BOOLEAN, template_ok : {TRUE}, instances : {0},
     max_tokens : MaxTokensValues, return_full_text : {Absent},
     default_return_full_text : {FALSE}]
    \cup
    [route : {"/v1/chat/completions"}, stream : BOOLEAN,
     best_of : {None}, decoder_input_details : {FALSE}, details : {FALSE},
     suffix : {FALSE}, template_ok : BOOLEAN, instances : {0},
     max_tokens : MaxTokensValues, return_full_text : {Absent},
     default_return_full_text : {FALSE}]
    \cup
    [route : {"/vertex"}, stream : {FALSE},
     best_of : {None}, decoder_input_details : {FALSE}, details : {FALSE},
     suffix : {FALSE}, template_ok : {TRUE}, instances : 0..MaxInstances,
     max_tokens : {None}, return_full_text : {Absent},
     default_return_full_text : {FALSE}]

\* Mutant: max_tokens is passed on as it came.
MaxNewTokens_AsPosted(max_tokens) == max_tokens

\* `req.max_tokens.or(Some(100))` of completions and chat_completions
MaxNewTokens(max_tokens) ==
    IF max_tokens # None THEN max_tokens ELSE DefaultMaxNewTokens

\* Mutant: the deployment default overrides what the request says.
CompatReturnFullText_AlwaysDefault(return_full_text, default_return_full_text) ==
    Some(default_return_full_text)

\* compat_generate: "default return_full_text given the pipeline_tag"
CompatReturnFullText(return_full_text, default_return_full_text) ==
    IF return_full_text = Absent THEN Some(default_return_full_text)
    ELSE return_full_text

\* Mutant: the OpenAI routes always ask for the details of the prompt.
DecoderInputDetails_Always(stream) == TRUE

\* `decoder_input_details: !stream` of completions and chat_completions
DecoderInputDetails(stream) == ~stream

\* The internal GenerateRequest a handler builds from the posted body.
GenerateRequest(h) ==
    CASE h.route \in {"/generate", "/generate_stream"} ->
           [best_of |-> h.best_of,
            decoder_input_details |-> h.decoder_input_details,
            details |-> h.details,
            max_new_tokens |-> h.max_tokens,
            return_full_text |-> h.return_full_text]
      [] h.route = "/" ->
           [best_of |-> h.best_of,
            decoder_input_details |-> h.decoder_input_details,
            details |-> h.details,
            max_new_tokens |-> h.max_tokens,
            return_full_text |->
                CompatReturnFullText(h.return_full_text, h.default_return_full_text)]
      [] h.route \in {"/v1/completions", "/v1/chat/completions"} ->
           [best_of |-> None, decoder_input_details |-> DecoderInputDetails(h.stream),
            details |-> TRUE,
            max_new_tokens |-> MaxNewTokens(h.max_tokens),
            return_full_text |-> Absent]
      [] OTHER ->
           [best_of |-> None, decoder_input_details |-> TRUE, details |-> TRUE,
            max_new_tokens |-> h.max_tokens, return_full_text |-> Absent]

StreamingRequest(h) == h.route = "/generate_stream" \/ (h.route # "none" /\ h.stream)

\* ----------------------------------------------------------------- errors
\* Mutant: Overloaded answered like a generation error.
StatusCode_OverloadedAs424(err) ==
    CASE err = "GenerationError" -> 424
      [] err = "Overloaded" -> 424
      [] err = "ValidationError" -> 422
      [] err = "IncompleteGeneration" -> 500
      [] err = "TemplateError" -> 422

\* impl From<InferError> for (StatusCode, Json<ErrorResponse>)
StatusCode(err) ==
    CASE err = "GenerationError" -> 424
      [] err = "Overloaded" -> 429
      [] err = "ValidationError" -> 422
      [] err = "IncompleteGeneration" -> 500
      [] err = "TemplateError" -> 422

NoResponse == [status |-> 0, body |-> "none", err |-> "none", error_type |-> "none",
               details |-> FALSE, predictions |-> <<>>]

\* (StatusCode, Json<ErrorResponse>) made from an InferError
ErrorResponse(err) ==
    [status |-> StatusCode(err), body |-> "ErrorResponse", err |-> err,
     error_type |-> err, details |-> FALSE, predictions |-> <<>>]

\* A (StatusCode, Json<ErrorResponse>) a handler writes out literally
LiteralError(status, error_type) ==
    [status |-> status, body |-> "ErrorResponse", err |-> "none",
     error_type |-> error_type, details |-> FALSE, predictions |-> <<>>]

OkResponse(body, details) ==
    [status |-> 200, body |-> body, err |-> "none", error_type |-> "none",
     details |-> details, predictions |-> <<>>]

\* ----------------------------------------------------------------- events
\* impl From<InferError> for Event
ErrorEvent(err, message) ==
    [kind |-> "error", index |-> 0, generated_text |-> FALSE, details |-> FALSE,
     err |-> err, error |-> message]

\* StreamResponse { index, token, top_tokens, generated_text, details }
StreamResponse(kind, idx, generated_text, details) ==
    [kind |-> kind, index |-> idx, generated_text |-> generated_text,
     details |-> details, err |-> "none", error |-> "none"]

\* --------------------------------------------------------- channel items
ChannelItems ==
    {[t |-> "Prefill", generated_tokens |-> 0, err |-> "none"],
     [t |-> "Intermediate", generated_tokens |-> 0, err |-> "none"]}
    \cup [t : {"End"}, generated_tokens : 0..MaxGeneratedTokens, err : {"none"}]
    \cup {[t |-> "Err", generated_tokens |-> 0, err |-> "GenerationError"],
          [t |-> "Closed", generated_tokens |-> 0, err |-> "none"]}

\* What Infer::generate / Infer::generate_best_of can return
InferResults ==
    [ok : {TRUE}, generated_tokens : 0..MaxGeneratedTokens, err : {"none"}]
    \cup [ok : {FALSE}, generated_tokens : {0},
          err : {"ValidationError", "GenerationError", "IncompleteGeneration"}]

NoMetrics == [count |-> 0, success |-> 0, validation |-> 0, incomplete |-> 0]

Bump(m, field) == [m EXCEPT ![field] = @ + 1]

\* One call of `generate`: not started yet.  `rank` is the place of the call
\* among the calls that have returned Ok (0 until it returns).
NewCall == [st |-> "new", held |-> 0, short |-> FALSE, err |-> "none",
            status |-> 0, generated_tokens |-> 0, details |-> FALSE, rank |-> 0]

\* ----------------------------------------------------------------- health
\* GET routes served by `health`
HealthRoutes == {"/health", "/ping", "/"}

\* Health::check on the flag and the state of the shards: the value it
\* returns, whether it ran the prefill probe, and the flag it leaves.
Health_check(flag, up) ==
    IF flag
    THEN [value |-> TRUE, probed |-> FALSE, flag |-> FALSE]
    ELSE [value |-> up, probed |-> TRUE, flag |-> flag]

\* Mutant: the route answers Ok(()) whatever the check says.
HealthResponse_AlwaysOk(value) == OkResponse("()", FALSE)

\* The match of `health` on the value of health.check()
HealthResponse(value) ==
    IF value THEN OkResponse("()", FALSE) ELSE LiteralError(503, "healthcheck")

\* ------------------------------------------------ chat_completions: tools
ToolNames == {"f", "g"}

\* `parameters` of a tool: a JSON schema, not looked into
ToolParameters == {"P", "Q"}

Tool == [name : ToolNames, parameters : ToolParameters]

SeqsUpTo(S, n) == UNION {[1..k -> S] : k \in 0..n}

\* ToolType::OneOf, ToolType::FunctionName(name)
ToolChoices ==
    {[t |-> "OneOf", name |-> ""]} \cup [t : {"FunctionName"}, name : ToolNames]

\* Penalties are counted in steps of 1/PenaltyScale.
PenaltyValues == (-(2 * PenaltyScale) - 1)..(2 * PenaltyScale + 1)

\* The ChatRequest bodies: the fields chat_completions reads before it
\* generates (max_tokens is followed on the request's own life, above).
ChatRequests ==
    [route : {"/v1/chat/completions"}, stream : BOOLEAN, template_ok : BOOLEAN,
     presence_penalty : {Absent} \cup {Some(p) : p \in PenaltyValues},
     tools : {Absent} \cup {Some(ts) : ts \in SeqsUpTo(Tool, MaxTools)},
     tool_choice : {Absent} \cup {Some(c) : c \in ToolChoices}]

\* Mutant: the penalty is passed on unscaled.
RepetitionPenalty_Unscaled(presence_penalty) == presence_penalty

\* `req.presence_penalty.map(|x| x + 2.0)`
RepetitionPenalty(presence_penalty) ==
    {x + 2 * PenaltyScale : x \in presence_penalty}

ToolNamesOf(ts) == {ts[i].name : i \in DOMAIN ts}

\* `req_tools.iter().find(|tool| tool.function.name == *name)`
Find(ts, name) ==
    LET at == {i \in DOMAIN ts : ts[i].name = name} IN
    IF at = {} THEN Absent
    ELSE Some(ts[CHOOSE i \in at : \A j \in at : i <= j])

\* Mutant: a named choice is treated like ToolType::OneOf.
ToolsToUse_All(req_tools, tool_choice) == Some(req_tools)

\* `tools_to_use`: the tools the grammar is built from, Absent when the
\* choice names no tool of the request.
ToolsToUse(req_tools, tool_choice) ==
    IF tool_choice.t = "FunctionName"
    THEN LET found == Find(req_tools, tool_choice.name) IN
         IF found = Absent THEN Absent ELSE Some(<<Unwrap(found)>>)
    ELSE Some(req_tools)

\* Mutant: the first tool of a name keeps its entry.
Functions_FirstWins(tools_to_use) ==
    [n \in ToolNamesOf(tools_to_use) |-> Unwrap(Find(tools_to_use, n)).parameters]

\* `functions: HashMap<String, Value>` collected from (name, parameters): a
\* later pair of the same name replaces the earlier one.
Functions(tools_to_use) ==
    [n \in ToolNamesOf(tools_to_use) |->
        LET at == {i \in DOMAIN tools_to_use : tools_to_use[i].name = n} IN
        tools_to_use[CHOOSE i \in at : \A j \in at : j <= i].parameters]

\* `FunctionRef { ref_path: format!("#/$functions/{}", name) }`, one per tool
FunctionRefs(tools_to_use) ==
    [i \in DOMAIN tools_to_use |-> "#/$functions/" \o tools_to_use[i].name]

\* `Tools { functions_map, properties }` as the JSON it is serialised to
ToolGrammar(tools_to_use) ==
    [functions |-> Functions(tools_to_use), function |-> FunctionRefs(tools_to_use)]

\* The part of the internal GenerateRequest that chat_completions computes.
NoGenerateRequest ==
    [best_of |-> None, details |-> FALSE, decoder_input_details |-> FALSE,
     repetition_penalty |-> Absent, grammar |-> Absent, tools_in_inputs |-> FALSE]

\* chat_completions returned Err((status, Json(ErrorResponse))) early
Refused(status, error_type) ==
    [ok |-> FALSE, status |-> status, error_type |-> error_type,
     tools_to_use |-> <<>>, generate_request |-> NoGenerateRequest]

\* chat_completions reached `let generate_request = GenerateRequest {..}`
Accepted(tools_to_use, generate_request) ==
    [ok |-> TRUE, status |-> 0, error_type |-> "none",
     tools_to_use |-> tools_to_use, generate_request |-> generate_request]

NotBuilt == Refused(0, "none")

\* chat_completions from its first line to `generate_request`
ChatGenerateRequest(req) ==
    LET request == [best_of |-> None, details |-> TRUE,
                    decoder_input_details |-> ~req.stream,
                    repetition_penalty |-> RepetitionPenalty(req.presence_penalty),
                    grammar |-> Absent, tools_in_inputs |-> FALSE]
    IN
    IF ~req.template_ok THEN Refused(422, "TemplateError")
    ELSE IF req.tools # Absent /\ req.tool_choice # Absent
    THEN LET use == ToolsToUse(Unwrap(req.tools), Unwrap(req.tool_choice)) IN
         IF use = Absent THEN Refused(422, "Tool not found")
         ELSE Accepted(Unwrap(use),
                       [request EXCEPT !.grammar = Some(ToolGrammar(Unwrap(use))),
                                       !.tools_in_inputs = TRUE])
    ELSE Accepted(<<>>, request)

\* --------------------------------------------- chat_completions: the answer
NoMembers == [k \in {} |-> TRUE]

\* serde_json::Value: a string or an object (its members by key)
JsonString(s) == [kind |-> "string", string |-> s, members |-> NoMembers]

JsonObject(m) == [kind |-> "object", string |-> "", members |-> m]

JsonObjects(keys, values) ==
    {JsonObject(m) : m \in UNION {[S -> values] : S \in SUBSET keys}}

InnerValues == {JsonString("Paris")} \cup JsonObjects({"city"}, {JsonString("Paris")})

JsonValues == InnerValues \cup JsonObjects({"function", "city"}, InnerValues)

\* The texts a generation can end with: the text of a JSON value, or a text
\* that is no JSON.
GeneratedTexts ==
    {[valid |-> FALSE, json |-> JsonString("")]} \cup [valid : {TRUE}, json : JsonValues]

\* serde_json::from_str(&generation.generated_text)
FromStr(text) == IF text.valid THEN Some(text.json) ELSE Absent

\* Value::get(key): the member of an object, None for any other value
Get(value, key) ==
    IF value.kind = "object" /\ key \in DOMAIN value.members
    THEN Some(value.members[key])
    ELSE Absent

\* Mutant: the parameters are always the whole value.
ToolCallParameters_Whole(value) == value

\* `gen_text_value.get("function").map_or_else(|| from_str(..), |f| Ok(f.clone()))`
ToolCallParameters(value) ==
    LET f == Get(value, "function") IN
    IF f # Absent THEN Unwrap(f) ELSE value

NotAnswered ==
    [status |-> 0, error_type |-> "none", generated_text |-> Absent,
     content |-> Absent, tool_calls |-> <<>>, tokens |-> <<>>]

AnswerError(status, error_type) ==
    [NotAnswered EXCEPT !.status = status, !.error_type = error_type]

\* chat_completions after `generate` returned its generation: the
\* ChatCompletion (content, tool_calls) or the error it answers with.
ChatCompletion(tool_grammar, text) ==
    IF tool_grammar # Absent
    THEN IF FromStr(text) = Absent
         THEN [AnswerError(422, "Input validation error")
                   EXCEPT !.generated_text = Some(text)]
         ELSE [NotAnswered EXCEPT
                   !.status = 200,
                   !.generated_text = Some(text),
                   !.tool_calls =
                       <<[name |-> "tools",
                          parameters |-> ToolCallParameters(Unwrap(FromStr(text)))]>>]
    ELSE [NotAnswered EXCEPT !.status = 200, !.generated_text = Some(text),
                             !.content = Some(text)]

\* ---------------------------------------------------------------- tokenize
Chars == {"a", "b"}

TokenIds == {7, 9}

\* get_offsets(): character offsets into an input of n characters
Offsets(n) == {o \in (0..n) \X (0..n) : o[1] <= o[2]}

\* tokenizers::Encoding of an input of n characters: ids and their offsets
Encodings(n) ==
    UNION {[ids : [1..k -> TokenIds], offsets : [1..k -> Offsets(n)]] : k \in 0..MaxEntries}

\* What infer.tokenize gives for an input: Err, Ok(None), Ok(Some(encoding))
TokenizeResults(n) ==
    {[ok |-> FALSE, encoding |-> Absent], [ok |-> TRUE, encoding |-> Absent]}
    \cup {[ok |-> TRUE, encoding |-> Some(e)] : e \in Encodings(n)}

\* The bodies posted to /tokenize, each with what the tokenizer makes of it
TokenizeRequests ==
    UNION {[route : {"/tokenize"}, inputs : {s}, tokenized : TokenizeResults(Len(s))] :
              s \in SeqsUpTo(Chars, MaxChars)}

NoBody == [route |-> "none"]

\* Iterator::skip, Iterator::take on the characters of a string
Skip(s, n) == SubSeq(s, Min(n, Len(s)) + 1, Len(s))

Take(s, n) == SubSeq(s, 1, Min(n, Len(s)))

\* Mutant: `take(stop)` for `take(stop - start)`.
TokenText_TakeStop(input, start, stop) == Take(Skip(input, start), stop)

\* `input.chars().skip(start).take(stop - start).collect()`
TokenText(input, start, stop) == Take(Skip(input, start), stop - start)

\* `tokenize` on the body and the result of infer.tokenize
TokenizeResponse(body) ==
    IF ~body.tokenized.ok THEN AnswerError(StatusCode("ValidationError"), "ValidationError")
    ELSE IF body.tokenized.encoding = Absent
    THEN AnswerError(404, "no fast tokenizer")
    ELSE LET encoding == Unwrap(body.tokenized.encoding)
             n == Min(Len(encoding.ids), Len(encoding.offsets))
         IN [NotAnswered EXCEPT
                !.status = 200,
                !.tokens = [i \in 1..n |->
                               [id |-> encoding.ids[i],
                                text |-> TokenText(body.inputs, encoding.offsets[i][1],
                                                   encoding.offsets[i][2]),
                                start |-> encoding.offsets[i][1],
                                stop |-> encoding.offsets[i][2]]]]

\* ------------------------------------------------------------------- Init
\* No request has arrived.
ServingInit ==
    /\ http = NoRequest
    /\ pc = "idle"
    /\ available = MaxConcurrentRequests
    /\ permit = 0
    /\ others = 0
    /\ everHeld = FALSE
    /\ gens = <<>>
    /\ index = 0
    /\ end_reached = FALSE
    /\ error = FALSE
    /\ received = <<>>
    /\ events = <<>>
    /\ resp = NoResponse
    /\ metrics = NoMetrics

\* `run`: the flag is created unset and handed to Health and to Infer.
HealthInit ==
    /\ generation_health = FALSE
    /\ shards_up = TRUE
    /\ health_log = <<>>

\* Infer::new: an empty queue, no batch in the shards.
BatchingInit ==
    /\ queue = <<>>
    /\ next_id = 0
    /\ batch = <<>>
    /\ waiting_tokens = 0
    /\ phase = "idle"

Init ==
    /\ ServingInit
    /\ HealthInit
    /\ posted = NoBody
    /\ built = NotBuilt
    /\ answered = NotAnswered
    /\ BatchingInit
    /\ requires_padding = FALSE

\* A client posts a request.
Arrive ==
    /\ pc = "idle"
    /\ http' \in HttpRequests
    /\ pc' = "routed"
    /\ UNCHANGED <<aside, available, permit, others, everHeld, gens, index, end_reached,
                   error, received, events, resp, metrics>>

\* ------------------------------------------------- the other connections
\* Another request in flight takes a permit (Infer: try_acquire succeeded) ...
other_acquire ==
    /\ available > 0
    /\ available' = available - 1
    /\ others' = others + 1
    /\ UNCHANGED <<aside, http, pc, permit, everHeld, gens, index, end_reached, error,
                   received, events, resp, metrics>>

\* ... and gives it back when its response is over.
other_release ==
    /\ others > 0
    /\ others' = others - 1
    /\ available' = available + 1
    /\ UNCHANGED <<aside, http, pc, permit, everHeld, gens, index, end_reached, error,
                   received, events, resp, metrics>>

\* ------------------------------------------------------ handler fragments
\* The handler goes on to call `generate` n times.
BeginGenerate(n, m) ==
    /\ pc' = "generate"
    /\ gens' = [i \in 1..n |-> NewCall]
    /\ metrics' = m
    /\ UNCHANGED <<aside, http, available, permit, others, everHeld, index, end_reached,
                   error, received, events, resp>>

\* generate_stream_internal up to `(headers, stream)`: the response head is
\* written, the stream body has not been polled yet.
BeginStream(m) ==
    /\ pc' = "stream"
    /\ resp' = OkResponse("event-stream", FALSE)
    /\ metrics' = Bump(m, "count")
    /\ UNCHANGED <<aside, http, available, permit, others, everHeld, gens, index,
                   end_reached, error, received, events>>

\* The handler returns `response` without calling the Infer facade.
Reply(response, m) ==
    /\ pc' = "responded"
    /\ resp' = response
    /\ metrics' = m
    /\ UNCHANGED <<aside, http, available, permit, others, everHeld, gens, index,
                   end_reached, error, received, events>>

\* ---------------------------------------------------------------- routing
\* POST /generate
post_generate ==
    /\ pc = "routed" /\ http.route = "/generate"
    /\ BeginGenerate(1, metrics)

\* POST /generate_stream
generate_stream ==
    /\ pc = "routed" /\ http.route = "/generate_stream"
    /\ BeginStream(metrics)

\* POST /
compat_generate ==
    /\ pc = "routed" /\ http.route = "/"
    /\ IF http.stream THEN BeginStream(metrics) ELSE BeginGenerate(1, metrics)

\* Mutant: a streaming request is served before `suffix` is looked at.
completions_SuffixAfterStream ==
    /\ pc = "routed" /\ http.route = "/v1/completions"
    /\ LET m == Bump(metrics, "count") IN
       IF http.stream THEN BeginStream(m)
       ELSE IF http.suffix
       THEN Reply(LiteralError(422, "suffix not supported"), Bump(m, "validation"))
       ELSE BeginGenerate(1, m)

\* POST /v1/completions
completions ==
    /\ pc = "routed" /\ http.route = "/v1/completions"
    /\ LET m == Bump(metrics, "count") IN
       IF http.suffix
       THEN Reply(LiteralError(422, "suffix not supported"), Bump(m, "validation"))
       ELSE IF http.stream THEN BeginStream(m) ELSE BeginGenerate(1, m)

\* POST /v1/chat/completions
chat_completions ==
    /\ pc = "routed" /\ http.route = "/v1/chat/completions"
    /\ LET m == Bump(metrics, "count") IN
       IF ~http.template_ok
       THEN Reply([status |-> 422, body |-> "ErrorResponse", err |-> "TemplateError",
                   error_type |-> "TemplateError", details |-> FALSE,
                   predictions |-> <<>>],
                  Bump(m, "validation"))
       ELSE IF http.stream THEN BeginStream(m) ELSE BeginGenerate(1, m)

\* Mutant: the empty list of instances is not looked at.
vertex_compatibility_NoEmptyCheck ==
    /\ pc = "routed" /\ http.route = "/vertex"
    /\ BeginGenerate(http.instances, Bump(metrics, "count"))

\* POST /vertex
vertex_compatibility ==
    /\ pc = "routed" /\ http.route = "/vertex"
    /\ LET m == Bump(metrics, "count") IN
       IF http.instances = 0
       THEN Reply(LiteralError(422, "Input validation error"), m)
       ELSE BeginGenerate(http.instances, m)

\* --------------------------------------------------------------- generate
\* The error response of the handler when a call of `generate` fails with err
FailureResponse(h, err) ==
    IF h.route = "/vertex"
    THEN LiteralError(500, "Incomplete generation")
    ELSE ErrorResponse(err)

\* `generation.details.unwrap()` of chat_completions
HandlerPanics(h, details) == h.route = "/v1/chat/completions" /\ ~details

\* The success response of the handler, from the GenerateResponse(s)
SuccessResponse(h, details) ==
    CASE h.route = "/generate" -> OkResponse("GenerateResponse", details)
      [] h.route = "/" -> OkResponse("Vec<GenerateResponse>", details)
      [] h.route = "/v1/completions" ->
           IF details THEN OkResponse("Completion", details)
           ELSE LiteralError(500, "no details")
      [] h.route = "/v1/chat/completions" -> OkResponse("ChatCompletion", details)
      [] OTHER -> OkResponse("VertexResponse", FALSE)

\* `.collect::<FuturesUnordered<_>>().try_collect::<Vec<_>>()`: the generated
\* texts in the order in which the calls returned; the text generated for
\* instances[i] is written i.
Predictions(gs) ==
    [k \in DOMAIN gs |-> CHOOSE i \in DOMAIN gs : gs[i].rank = k]

\* Mutant: `generate` never builds Details.
WantDetails_Never(g) == FALSE

\* `let details: bool = req.parameters.details || req.parameters.decoder_input_details`
WantDetails(g) == g.details \/ g.decoder_input_details

\* Calls still running when the handler's future is dropped are dropped with it.
DropCalls(gs) ==
    [j \in DOMAIN gs |->
        IF gs[j].st \in {"new", "infer"} THEN [gs[j] EXCEPT !.st = "dropped", !.held = 0]
        ELSE gs[j]]

\* Call i of `generate` gets `result` from the Infer facade and runs to its
\* end; the handler that awaits it goes on as far as it can.
Returned(i, result, m) ==
    LET g == GenerateRequest(http)
        details == WantDetails(g)
        avail == available + gens[i].held
        mine == permit - gens[i].held
    IN
    IF result.ok /\ result.generated_tokens = 0
    THEN \* inference_time / 0: the handler's task panics
         /\ pc' = "panicked"
         /\ gens' = DropCalls([gens EXCEPT ![i] = [@ EXCEPT !.st = "panic", !.held = 0]])
         /\ available' = avail + mine
         /\ permit' = 0
         /\ metrics' = m
         /\ resp' = resp
    ELSE IF result.ok
    THEN LET done == {j \in DOMAIN gens : gens[j].st = "ok"}
             gs == [gens EXCEPT ![i] = [@ EXCEPT !.st = "ok", !.held = 0, !.status = 200,
                        !.generated_tokens = result.generated_tokens,
                        !.details = details,
                        !.rank = Cardinality(done) + 1]]
             all == \A j \in DOMAIN gs : gs[j].st = "ok"
         IN
         /\ gens' = gs
         /\ available' = avail
         /\ permit' = mine
         /\ metrics' = Bump(m, "success")
         /\ pc' = IF ~all THEN "generate"
                  ELSE IF HandlerPanics(http, details) THEN "panicked"
                  ELSE "responded"
         /\ resp' = IF all /\ ~HandlerPanics(http, details)
                    THEN IF http.route = "/vertex"
                         THEN [SuccessResponse(http, details)
                                  EXCEPT !.predictions = Predictions(gs)]
                         ELSE SuccessResponse(http, details)
                    ELSE resp
    ELSE /\ gens' = DropCalls([gens EXCEPT ![i] = [@ EXCEPT !.st = "err", !.held = 0,
                                    !.err = result.err,
                                    !.status = StatusCode(result.err)]])
         /\ available' = avail + mine
         /\ permit' = 0
         /\ metrics' = m
         /\ pc' = "responded"
         /\ resp' = FailureResponse(http, result.err)

\* `generate` from its first line to the call of infer.generate or
\* infer.generate_best_of, which takes its permits or fails at once.
generate_enter(i) ==
    /\ pc = "generate"
    /\ i \in DOMAIN gens
    /\ gens[i].st = "new"
    /\ LET g == GenerateRequest(http)
           n == IF g.best_of > 1 THEN g.best_of ELSE 1
           k == Min(n, available)
           m == Bump(metrics, "count")
       IN
       IF k = 0
       THEN /\ Returned(i, [ok |-> FALSE, generated_tokens |-> 0, err |-> "Overloaded"], m)
            /\ UNCHANGED everHeld
       ELSE /\ available' = available - k
            /\ permit' = permit + k
            /\ everHeld' = TRUE
            /\ gens' = [gens EXCEPT ![i] = [@ EXCEPT !.st = "infer", !.held = k,
                                                    !.short = (k < n)]]
            /\ metrics' = m
            /\ UNCHANGED <<pc, resp>>
    /\ UNCHANGED <<aside, http, others, index, end_reached, error, received, events>>

\* infer.generate / infer.generate_best_of returns and `generate` runs on.
generate_return(i) ==
    /\ pc = "generate"
    /\ i \in DOMAIN gens
    /\ gens[i].st = "infer"
    /\ \E result \in InferResults :
        /\ gens[i].short => (~result.ok /\ result.err = "ValidationError")
        /\ Returned(i, IF gens[i].short
                       THEN [result EXCEPT !.err = "Overloaded"] ELSE result, metrics)
    /\ UNCHANGED <<aside, http, others, everHeld, index, end_reached, error, received,
                   events>>

\* ------------------------------------------------ generate_stream_internal
\* Mutant: the check forgets the `end_reached` flag.
AfterMatch_IgnoresEnd(evs, m, reached, err) ==
    IF ~err
    THEN <<Append(evs, ErrorEvent("IncompleteGeneration", "IncompleteGeneration")),
           Bump(m, "incomplete"), "yield_fin">>
    ELSE <<evs, m, "done">>

\* Mutant: the check forgets the `error` flag.
AfterMatch_IgnoresError(evs, m, reached, err) ==
    IF ~reached
    THEN <<Append(evs, ErrorEvent("IncompleteGeneration", "IncompleteGeneration")),
           Bump(m, "incomplete"), "yield_fin">>
    ELSE <<evs, m, "done">>

\* The check that follows the match on infer.generate_stream: "Check if
\* generation reached the end / Skip if we already sent an error".
\* Gives <<events, metrics, pc>> from the events and metrics so far.
AfterMatch(evs, m, reached, err) ==
    IF ~reached /\ ~err
    THEN <<Append(evs, ErrorEvent("IncompleteGeneration", "IncompleteGeneration")),
           Bump(m, "incomplete"), "yield_fin">>
    ELSE <<evs, m, "done">>

\* Mutant: only a best_of above 1 is refused.
StreamPrecheck_BestOfAboveOne(g) ==
    IF g.best_of > 1 THEN "BestOfStream"
    ELSE IF g.decoder_input_details THEN "PrefillDetailsStream"
    ELSE "ok"

\* Mutant: the decoder_input_details pre-check is missing.
StreamPrecheck_NoPrefillCheck(g) ==
    LET best_of == IF g.best_of = None THEN 1 ELSE g.best_of IN
    IF best_of # 1 THEN "BestOfStream" ELSE "ok"

\* The pre-checks of the stream: the ValidationError the request is refused
\* with before infer.generate_stream is called, or "ok".
StreamPrecheck(g) ==
    LET best_of == IF g.best_of = None THEN 1 ELSE g.best_of IN
    IF best_of # 1 THEN "BestOfStream"
    ELSE IF g.decoder_input_details THEN "PrefillDetailsStream"
    ELSE "ok"

\* Mutant: the last StreamResponse always carries details.
EndDetails_Always(g) == TRUE

\* `details` of the last StreamResponse: Some(StreamDetails) iff the request
\* asked for details.
EndDetails(g) == g.details

\* Mutant: the arm of an Err item lacks its `break`.
OnErr_NoBreak(item) ==
    [error |-> TRUE, event |-> ErrorEvent(item.err, item.err), pc |-> "yield_tok"]

\* The arm of an Err item: flag the error, yield it, break.
OnErr(item) ==
    [error |-> TRUE, event |-> ErrorEvent(item.err, item.err), pc |-> "yield_brk"]

\* First poll of the stream: the two pre-checks, then infer.generate_stream
\* up to the admission semaphore.
stream_begin ==
    /\ pc = "stream"
    /\ LET check == StreamPrecheck(GenerateRequest(http)) IN
       IF check # "ok"
       THEN /\ events' = Append(events, ErrorEvent("ValidationError", check))
            /\ metrics' = Bump(metrics, "validation")
            /\ pc' = "yield_fin"
            /\ UNCHANGED <<available, permit, everHeld, error>>
       ELSE IF available = 0
       THEN /\ error' = TRUE
            /\ events' = Append(events, ErrorEvent("Overloaded", "Overloaded"))
            /\ pc' = "yield_err"
            /\ UNCHANGED <<available, permit, everHeld, metrics>>
       ELSE /\ available' = available - 1
            /\ permit' = permit + 1
            /\ everHeld' = TRUE
            /\ pc' = "validating"
            /\ UNCHANGED <<events, metrics, error>>
    /\ UNCHANGED <<aside, http, others, gens, index, end_reached, received, resp>>

\* Mutant: the permit is bound to `_` and dropped as soon as it is returned.
stream_validated_PermitDropped ==
    /\ pc = "validating"
    /\ \E ok \in BOOLEAN :
        /\ available' = available + permit
        /\ permit' = 0
        /\ IF ok
           THEN /\ pc' = "loop"
                /\ UNCHANGED <<error, events>>
           ELSE /\ error' = TRUE
                /\ events' = Append(events, ErrorEvent("ValidationError", "Validation"))
                /\ pc' = "yield_err"
    /\ UNCHANGED <<aside, http, others, everHeld, gens, index, end_reached, received, resp,
                   metrics>>

\* infer.generate_stream returns: the request passed validation and its
\* channel is live, or validation failed and the permit is given back.
stream_validated ==
    /\ pc = "validating"
    /\ \E ok \in BOOLEAN :
        IF ok
        THEN /\ pc' = "loop"
             /\ UNCHANGED <<available, permit, error, events>>
        ELSE /\ available' = available + permit
             /\ permit' = 0
             /\ error' = TRUE
             /\ events' = Append(events, ErrorEvent("ValidationError", "Validation"))
             /\ pc' = "yield_err"
    /\ UNCHANGED <<aside, http, others, everHeld, gens, index, end_reached, received, resp,
                   metrics>>

\* `response_stream.next().await` delivers an item (or the channel's end) and
\* the loop body runs to its next yield.
stream_next ==
    /\ pc = "loop"
    /\ \E item \in ChannelItems :
        /\ Len(received) < MaxItems \/ item.t \in {"End", "Err", "Closed"}
        /\ received' = Append(received, item)
        /\ LET g == GenerateRequest(http) IN
           CASE item.t = "Closed" ->
                  \* the loop ends, `_permit` goes out of scope
                  LET after == AfterMatch(events, metrics, end_reached, error) IN
                  /\ available' = available + permit
                  /\ permit' = 0
                  /\ events' = after[1]
                  /\ metrics' = after[2]
                  /\ pc' = after[3]
                  /\ UNCHANGED <<index, end_reached, error>>
             [] item.t = "Prefill" ->
                  /\ index' = index + 1
                  /\ UNCHANGED <<pc, available, permit, events, metrics, end_reached,
                                 error>>
             [] item.t = "Intermediate" ->
                  /\ index' = index + 1
                  /\ events' = Append(events,
                                      StreamResponse("token", index + 1, FALSE, FALSE))
                  /\ pc' = "yield_tok"
                  /\ UNCHANGED <<available, permit, metrics, end_reached, error>>
             [] item.t = "End" /\ item.generated_tokens = 0 ->
                  \* inference_time / 0: the stream panics, dropping `_permit`
                  /\ index' = index + 1
                  /\ pc' = "panicked"
                  /\ available' = available + permit
                  /\ permit' = 0
                  /\ UNCHANGED <<events, metrics, end_reached, error>>
             [] item.t = "End" /\ item.generated_tokens > 0 ->
                  /\ index' = index + 1
                  /\ metrics' = Bump(metrics, "success")
                  /\ end_reached' = TRUE
                  /\ events' = Append(events,
                                      StreamResponse("end", index + 1, TRUE, EndDetails(g)))
                  /\ pc' = "yield_brk"
                  /\ UNCHANGED <<available, permit, error>>
             [] item.t = "Err" ->
                  /\ index' = index + 1
                  /\ error' = OnErr(item).error
                  /\ events' = Append(events, OnErr(item).event)
                  /\ pc' = OnErr(item).pc
                  /\ UNCHANGED <<available, permit, metrics, end_reached>>
    /\ UNCHANGED <<aside, http, others, everHeld, gens, resp>>

\* The client takes the event and polls again: the stream runs on from its
\* yield.
stream_resume ==
    /\ pc \in {"yield_tok", "yield_brk", "yield_err", "yield_fin"}
    /\ CASE pc = "yield_tok" ->
              /\ pc' = "loop"
              /\ UNCHANGED <<available, permit, events, metrics>>
         [] pc = "yield_brk" ->
              \* break: the match arm ends, `_permit` goes out of scope
              LET after == AfterMatch(events, metrics, end_reached, error) IN
              /\ available' = available + permit
              /\ permit' = 0
              /\ events' = after[1]
              /\ metrics' = after[2]
              /\ pc' = after[3]
         [] pc = "yield_err" ->
              LET after == AfterMatch(events, metrics, end_reached, error) IN
              /\ events' = after[1]
              /\ metrics' = after[2]
              /\ pc' = after[3]
              /\ UNCHANGED <<available, permit>>
         [] pc = "yield_fin" ->
              /\ pc' = "done"
              /\ UNCHANGED <<available, permit, events, metrics>>
    /\ UNCHANGED <<aside, http, others, everHeld, gens, index, end_reached, error, received,
                   resp>>

\* The client goes away: the handler's future or the response stream is
\* dropped, and every permit it owns with it.
client_disconnect ==
    /\ pc \in {"generate", "stream", "validating", "loop",
               "yield_tok", "yield_brk", "yield_err", "yield_fin"}
    /\ pc' = "dropped"
    /\ available' = available + permit
    /\ permit' = 0
    /\ gens' = DropCalls(gens)
    /\ UNCHANGED <<aside, http, others, everHeld, index, end_reached, error, received,
                   events, resp, metrics>>

Next ==
    \/ Arrive
    \/ other_acquire
    \/ other_release
    \/ post_generate
    \/ generate_stream
    \/ compat_generate
    \/ completions
    \/ chat_completions
    \/ vertex_compatibility
    \/ \E i \in DOMAIN gens : generate_enter(i)
    \/ \E i \in DOMAIN gens : generate_return(i)
    \/ stream_begin
    \/ stream_validated
    \/ stream_next
    \/ stream_resume
    \/ client_disconnect

Spec == Init /\ [][Next]_vars

\* ------------------------------------------------------------ SpecHealth
\* GET /health, GET /ping, GET /: one run of `health`.
health(route) ==
    /\ Len(health_log) < MaxHealthLog
    /\ LET c == Health_check(generation_health, shards_up) IN
       /\ generation_health' = c.flag
       /\ health_log' = Append(health_log,
                               [kind |-> "check", route |-> route,
                                flag |-> generation_health, up |-> shards_up,
                                probed |-> c.probed, value |-> c.value,
                                resp |-> HealthResponse(c.value)])
    /\ UNCHANGED <<shards_up, posted, built, answered, serving, batching>>

\* The scheduler: a decode step returned normally.
decode ==
    /\ Len(health_log) < MaxHealthLog
    /\ shards_up
    /\ generation_health' = TRUE
    /\ health_log' = Append(health_log,
                            [kind |-> "decode", route |-> "none",
                             flag |-> generation_health, up |-> shards_up,
                             probed |-> FALSE, value |-> TRUE, resp |-> NoResponse])
    /\ UNCHANGED <<shards_up, posted, built, answered, serving, batching>>

\* The shards stop answering ...
shard_fail ==
    /\ shards_up
    /\ shards_up' = FALSE
    /\ UNCHANGED <<generation_health, health_log, posted, built, answered, serving, batching>>

\* ... and answer again.
shard_recover ==
    /\ ~shards_up
    /\ shards_up' = TRUE
    /\ UNCHANGED <<generation_health, health_log, posted, built, answered, serving, batching>>

HealthNext ==
    \/ \E route \in HealthRoutes : health(route)
    \/ decode
    \/ shard_fail
    \/ shard_recover

SpecHealth == Init /\ [][HealthNext]_vars

\* ---------------------------------------------------------- SpecAdapters
\* A body has been posted to /v1/chat/completions or to /tokenize.
AdaptersInit ==
    /\ ServingInit
    /\ HealthInit
    /\ posted \in ChatRequests \cup TokenizeRequests
    /\ built = NotBuilt
    /\ answered = NotAnswered
    /\ BatchingInit
    /\ requires_padding = FALSE

\* chat_completions builds the internal request or refuses the body.
chat_build ==
    /\ posted.route = "/v1/chat/completions"
    /\ built = NotBuilt
    /\ built' = ChatGenerateRequest(posted)
    /\ UNCHANGED <<posted, answered, generation_health, shards_up, health_log, serving, batching>>

\* `generate` returned a generation to the non-streaming chat_completions.
chat_respond ==
    /\ posted.route = "/v1/chat/completions"
    /\ built.ok
    /\ ~posted.stream
    /\ answered = NotAnswered
    /\ \E text \in GeneratedTexts :
          answered' = ChatCompletion(built.generate_request.grammar, text)
    /\ UNCHANGED <<posted, built, generation_health, shards_up, health_log, serving, batching>>

\* POST /tokenize
tokenize ==
    /\ posted.route = "/tokenize"
    /\ answered = NotAnswered
    /\ answered' = TokenizeResponse(posted)
    /\ UNCHANGED <<posted, built, generation_health, shards_up, health_log, serving, batching>>

AdaptersNext ==
    \/ chat_build
    \/ chat_respond
    \/ tokenize

SpecAdapters == AdaptersInit /\ [][AdaptersNext]_vars

\* --------------------------------------------------------- SpecScheduler
\* The (input_length, max_new_tokens) of the requests validation lets
\* through: input_length <= max_input_length and
\* input_length + max_new_tokens <= max_total_tokens.
ValidRequests ==
    {r \in [input_length : 1..max_input_length, max_new_tokens : 1..max_total_tokens]
        : r.input_length + r.max_new_tokens <= max_total_tokens}

\* Entry: a validated request in the queue or in a batch.  `closed` says the
\* receiver of its response_tx is gone, `finished` that the scheduler has
\* sent its End or seen its channel closed.
NewEntry(id, r) ==
    [id |-> id, input_length |-> r.input_length, max_new_tokens |-> r.max_new_tokens,
     generated_tokens |-> 0, closed |-> FALSE, finished |-> FALSE]

RECURSIVE Sum(_)
Sum(s) == IF s = <<>> THEN 0 ELSE Head(s) + Sum(Tail(s))

Max(S) == CHOOSE x \in S : \A y \in S : y <= x

Ids(s) == {s[i].id : i \in DOMAIN s}

\* next_batch, condition 1: the running prefill_tokens
PrefillTokens(s) == Sum([i \in DOMAIN s |-> s[i].input_length])

\* next_batch, conditions 2 and 3: the running decode_tokens (with the
\* prefill tokens), recomputed for rectangular shapes under requires_padding
DecodeTokens(s) ==
    IF requires_padding
    THEN Max({s[i].input_length : i \in DOMAIN s}) * Len(s)
         + Sum([i \in DOMAIN s |-> s[i].max_new_tokens])
    ELSE PrefillTokens(s) + Sum([i \in DOMAIN s |-> s[i].max_new_tokens])

\* The candidate batch stays within the budgets of next_batch.
Fits(s, prefill_token_budget, token_budget) ==
    /\ PrefillTokens(s) <= prefill_token_budget
    /\ DecodeTokens(s) <= token_budget
    /\ Len(s) <= max_batch_size

\* Mutant: the scan does not look at the response channel.
RECURSIVE Scan_BatchesClosed(_, _, _, _)
Scan_BatchesClosed(entries, taken, prefill_token_budget, token_budget) ==
    IF entries = <<>> THEN [taken |-> taken, left |-> <<>>]
    ELSE LET e == Head(entries) IN
         IF Fits(Append(taken, e), prefill_token_budget, token_budget)
         THEN Scan_BatchesClosed(Tail(entries), Append(taken, e), prefill_token_budget,
                                 token_budget)
         ELSE [taken |-> taken, left |-> entries]

\* The scan of next_batch over the entries in FIFO order: an entry whose
\* response_tx is closed is dropped, an entry is taken as long as the
\* budgets hold, and the scan stops at the first entry that breaks one.
RECURSIVE Scan(_, _, _, _)
Scan(entries, taken, prefill_token_budget, token_budget) ==
    IF entries = <<>> THEN [taken |-> taken, left |-> <<>>]
    ELSE LET e == Head(entries) IN
         IF e.closed
         THEN Scan(Tail(entries), taken, prefill_token_budget, token_budget)
         ELSE IF Fits(Append(taken, e), prefill_token_budget, token_budget)
         THEN Scan(Tail(entries), Append(taken, e), prefill_token_budget, token_budget)
         ELSE [taken |-> taken, left |-> entries]

\* Queue::next_batch(min_size, prefill_token_budget, token_budget): the new
\* batch (empty for None) and the queue it leaves.
next_batch(min_size, prefill_token_budget, token_budget) ==
    LET scan == Scan(queue, <<>>, prefill_token_budget, token_budget) IN
    IF min_size # None /\ Len(scan.taken) < min_size
    THEN [entries |-> <<>>, queue |-> scan.taken \o scan.left]
    ELSE [entries |-> scan.taken, queue |-> scan.left]

\* Mutant: the tokens of the resident batch are not counted.
BatchMaxTokens_Zero(s) == 0

\* `batch_max_tokens` of a resident batch: over its entries, the tokens an
\* entry has in the shards (its input and what it has generated) plus the
\* new tokens it may still generate.
BatchMaxTokens(s) ==
    Sum([i \in DOMAIN s |->
            (s[i].input_length + s[i].generated_tokens)
            + (s[i].max_new_tokens - s[i].generated_tokens)])

\* The scheduler routes one Generation to every entry of s: an entry whose
\* channel is closed is marked for filtering, the others advance by
\* advance[id] tokens and end at max_new_tokens or at a stop token (eos).
Deliver(s, advance, eos) ==
    [i \in DOMAIN s |->
        LET e == s[i]
            n == Min(e.generated_tokens + advance[e.id], e.max_new_tokens)
        IN
        IF e.finished THEN e
        ELSE IF e.closed THEN [e EXCEPT !.finished = TRUE]
        ELSE [e EXCEPT !.generated_tokens = n,
                       !.finished = (n = e.max_new_tokens \/ e.id \in eos)]]

\* Queue::append: the entry gets the next id.
queue_append ==
    /\ next_id < MaxRequests
    /\ \E r \in ValidRequests :
          queue' = Append(queue, NewEntry(next_id, r))
    /\ next_id' = next_id + 1
    /\ UNCHANGED <<batch, waiting_tokens, requires_padding, phase, serving,
                   generation_health, shards_up, health_log, posted, built, answered>>

\* A client goes away: the receiver of an entry's channel is closed.
cancel ==
    /\ \/ \E i \in DOMAIN queue :
             /\ ~queue[i].closed
             /\ queue' = [queue EXCEPT ![i].closed = TRUE]
             /\ UNCHANGED batch
       \/ \E i \in DOMAIN batch :
             /\ ~batch[i].closed
             /\ batch' = [batch EXCEPT ![i].closed = TRUE]
             /\ UNCHANGED queue
    /\ UNCHANGED <<next_id, waiting_tokens, requires_padding, phase, serving,
                   generation_health, shards_up, health_log, posted, built, answered>>

\* Steps 1 to 3: no active batch; a batch is pulled from the queue with
\* min_size = None, prefilled, and its generations are routed.
prefill ==
    /\ phase = "idle"
    /\ queue # <<>>
    /\ LET new == next_batch(None, max_batch_prefill_tokens, max_batch_total_tokens) IN
       /\ queue' = new.queue
       /\ IF new.entries = <<>>
          THEN UNCHANGED <<batch, phase>>
          ELSE /\ \E eos \in SUBSET Ids(new.entries) :
                    batch' = Deliver(new.entries, [id \in Ids(new.entries) |-> 1], eos)
               /\ phase' = "filter"
    /\ waiting_tokens' = 0
    /\ UNCHANGED <<next_id, requires_padding, serving,
                   generation_health, shards_up, health_log, posted, built, answered>>

\* Step 4: the scheduler tries to extend the residual batch; a new batch is
\* prefilled and merged with it.
extend ==
    /\ phase = "extend"
    /\ LET batch_max_tokens == BatchMaxTokens(batch)
           min_size == IF waiting_tokens >= max_waiting_tokens
                       THEN Len(batch) * waiting_served_ratio
                       ELSE None
           token_budget == max_batch_total_tokens - batch_max_tokens
           prefill_token_budget == Min(max_batch_prefill_tokens, token_budget)
           new == next_batch(min_size, prefill_token_budget, token_budget)
       IN
       /\ queue' = new.queue
       /\ IF new.entries = <<>>
          THEN /\ phase' = "decode"
               /\ UNCHANGED <<batch, waiting_tokens>>
          ELSE /\ \E eos \in SUBSET Ids(new.entries) :
                    batch' = batch \o Deliver(new.entries,
                                              [id \in Ids(new.entries) |-> 1], eos)
               /\ waiting_tokens' = 0
               /\ phase' = "filter_new"
    /\ UNCHANGED <<next_id, requires_padding, serving,
                   generation_health, shards_up, health_log, posted, built, answered>>

\* Step 5: decode(batches); every entry advances by one token, or by up to
\* 1 + speculate tokens, and the generations are routed.
decode_batches ==
    /\ phase = "decode"
    /\ \E eos \in SUBSET Ids(batch) :
       \E advance \in [Ids(batch) -> 1..(1 + speculate)] :
          batch' = Deliver(batch, advance, eos)
    /\ waiting_tokens' = waiting_tokens + 1
    /\ generation_health' = TRUE
    /\ phase' = "filter"
    /\ UNCHANGED <<queue, next_id, requires_padding, serving,
                   shards_up, health_log, posted, built, answered>>

\* filter_batch: the entries that ended or were cancelled leave the batch.
filter_batch ==
    /\ phase \in {"filter", "filter_new"}
    /\ LET kept == SelectSeq(batch, LAMBDA e : ~e.finished) IN
       /\ batch' = kept
       /\ phase' = IF kept = <<>> THEN "idle"
                   ELSE IF phase = "filter" THEN "extend" ELSE "decode"
    /\ UNCHANGED <<queue, next_id, waiting_tokens, requires_padding, serving,
                   generation_health, shards_up, health_log, posted, built, answered>>

SchedulerInit ==
    /\ ServingInit
    /\ HealthInit
    /\ posted = NoBody
    /\ built = NotBuilt
    /\ answered = NotAnswered
    /\ BatchingInit
    /\ requires_padding \in BOOLEAN

SchedulerNext ==
    \/ queue_append
    \/ cancel
    \/ prefill
    \/ extend
    \/ decode_batches
    \/ filter_batch

SpecScheduler == SchedulerInit /\ [][SchedulerNext]_vars

\* ================================================================= claims
Last(s) == s[Len(s)]

Streaming == StreamingRequest(http)

Terminal(e) == e.kind \in {"end", "error"}

\* The stream has come to its end on the server's side (not by a disconnect).
StreamFinished == Streaming /\ pc \in {"done", "panicked"}

Count(S) == Cardinality(S)

\* C1: the events of a stream are token events followed by exactly one
\* terminal event (End or error), whatever the channel delivers; nothing is
\* emitted and nothing is read after the terminal event.
C1_EventOrder ==
    Streaming =>
        /\ \A i \in DOMAIN events : Terminal(events[i]) => i = Len(events)
        /\ StreamFinished => (events # <<>> /\ Terminal(Last(events)))
        /\ (events # <<>> /\ Terminal(Last(events))) =>
              /\ pc \notin {"loop", "yield_tok"}
              /\ received # <<>> => Last(received).t \in {"End", "Err", "Closed"}

\* C2: the index of the StreamResponse events is strictly increasing, and the
\* first Intermediate event carries index 1 however many Prefill items came
\* before it.
C2_IndexFromOne ==
    LET sr == {i \in DOMAIN events : events[i].kind \in {"token", "end"}} IN
    /\ \A i, j \in sr : i < j => events[i].index < events[j].index
    /\ \A i \in sr :
          (events[i].kind = "token" /\ \A j \in sr : j < i => events[j].kind # "token")
              => events[i].index = 1

\* C3: on every non-streaming route a request whose inference failed with
\* kind K is answered with K's status code and an ErrorResponse body.
C3_StatusOfKind ==
    (~Streaming /\ pc = "responded") =>
        /\ \A i \in DOMAIN gens :
              gens[i].st = "err" =>
                  /\ resp.status = StatusCode(gens[i].err)
                  /\ resp.body = "ErrorResponse"
        /\ resp.err = "TemplateError" =>
              (resp.status = 422 /\ resp.body = "ErrorResponse")

\* C4: a streaming request with best_of > 1 is answered with status 422 and
\* the best-of-stream validation message.
C4_BestOfStream422 ==
    (Streaming /\ GenerateRequest(http).best_of > 1 /\ resp # NoResponse) =>
        /\ resp.status = 422
        /\ events # <<>> => events[1].error = "BestOfStream"

\* C5: never more than max_concurrent_requests permits are out, nobody waits
\* for a permit, and a generation that starts while every permit is out is
\* refused in that very step with Overloaded, status 429.
C5_Bounded ==
    /\ available >= 0
    /\ permit + others <= MaxConcurrentRequests
    /\ \A i \in DOMAIN gens : gens[i].st = "infer" => gens[i].held >= 1
    /\ pc = "validating" => permit >= 1
    /\ \A i \in DOMAIN gens : gens[i].err = "Overloaded" => gens[i].status = 429

C5_Refused ==
    /\ \A i \in DOMAIN gens :
          (available = 0 /\ pc = "generate" /\ gens[i].st = "new" /\
           gens'[i].st \notin {"new", "dropped"}) =>
              /\ pc' = "responded"
              /\ gens'[i].st = "err"
              /\ gens'[i].err = "Overloaded"
              /\ gens'[i].status = 429
              /\ http.route # "/vertex" => resp'.status = 429
              /\ permit' = 0
    /\ (available = 0 /\ pc = "stream" /\ pc' \notin {"stream", "dropped"} /\
        GenerateRequest(http).best_of \in {None, 1} /\
        ~GenerateRequest(http).decoder_input_details) =>
           /\ pc' = "yield_err"
           /\ Last(events').err = "Overloaded"
           /\ permit' = 0

C6_PermitLifetime ==
    Streaming =>
        /\ pc \in {"validating", "loop", "yield_tok", "yield_brk"} => permit = 1
        /\ pc \in {"yield_err", "yield_fin", "done", "dropped", "panicked"} => permit = 0
        /\ available + permit + others = MaxConcurrentRequests

\* a stream that emitted a token, then End, and has given its permit back
C6_Witness ==
    /\ Streaming
    /\ pc = "done"
    /\ end_reached
    /\ Len(events) >= 2
    /\ everHeld
    /\ permit = 0
    /\ available + others = MaxConcurrentRequests

\* C7: a channel that closes without End and without error makes the stream
\* emit exactly one IncompleteGeneration event, as its last event; after End
\* or an error no IncompleteGeneration event is emitted.
C7_Incomplete ==
    Streaming =>
        LET inc == {i \in DOMAIN events : events[i].err = "IncompleteGeneration"}
            closed == received # <<>> /\ Last(received).t = "Closed"
        IN
        /\ closed => (Count(inc) = 1 /\ Last(events).err = "IncompleteGeneration")
        /\ (end_reached \/ error \/ \E i \in DOMAIN received :
                                        received[i].t \in {"End", "Err"}) => inc = {}
        /\ inc # {} => closed

\* a stream whose channel closed after a token: token event, then the error
C7_Witness ==
    /\ Streaming
    /\ pc = "done"
    /\ Len(received) >= 2
    /\ Last(received).t = "Closed"
    /\ Len(events) >= 2
    /\ Last(events).err = "IncompleteGeneration"

\* C8: a generation error ends the request: a stream emits exactly one error
\* event for it and nothing after it, a non-streaming request gets one error
\* response and no success body.
C8_ErrorTerminal ==
    LET errs == {i \in DOMAIN events : events[i].kind = "error"} IN
    /\ Streaming =>
          /\ Count(errs) <= 1
          /\ \A i \in errs : i = Len(events)
          /\ error => (Count(errs) = 1 /\ ~end_reached /\
                       \A i \in DOMAIN events : events[i].kind # "end")
          /\ (\E i \in DOMAIN received : received[i].t = "Err") => error
    /\ (~Streaming /\ \E i \in DOMAIN gens : gens[i].st = "err") =>
          /\ pc = "responded"
          /\ resp.body = "ErrorResponse"
          /\ resp.status >= 400

\* a stream that emitted a token and then the error its channel delivered
C8_Witness ==
    /\ Streaming
    /\ pc = "done"
    /\ error
    /\ received # <<>> /\ Last(received).t = "Err"
    /\ Len(events) >= 2
    /\ Last(events).err = "GenerationError"

C10_FinalCarriesBoth ==
    (Streaming /\ end_reached) =>
        /\ Last(events).generated_text /\ Last(events).details
        /\ \A i \in 1..(Len(events) - 1) :
              ~events[i].generated_text /\ ~events[i].details

\* C10 as amended: the last event of a successful stream carries
\* generated_text, and details exactly when the request asked for details;
\* the events before it carry neither.
C10_FinalCarriesText ==
    (Streaming /\ end_reached) =>
        /\ Last(events).kind = "end"
        /\ Last(events).generated_text
        /\ Last(events).details <=> GenerateRequest(http).details
        /\ \A i \in 1..(Len(events) - 1) :
              ~events[i].generated_text /\ ~events[i].details

\* a successful stream of two events whose last one carries details
C10_Witness ==
    /\ Streaming
    /\ end_reached
    /\ Len(events) >= 2
    /\ Last(events).generated_text
    /\ Last(events).details

\* C11: a generation that ends with generated_tokens = 0 still completes
\* normally: no call of `generate` dies on the division, and a stream that
\* read an End item with generated_tokens = 0 emits its End event.
C11_ZeroTokensCompletes ==
    /\ \A i \in DOMAIN gens : gens[i].st # "panic"
    /\ (Streaming /\ \E i \in DOMAIN received :
                        received[i].t = "End" /\ received[i].generated_tokens = 0) =>
          (end_reached /\ \E i \in DOMAIN events : events[i].kind = "end")

\* C12: the health routes answer 200 exactly when Health.check() returns
\* true and 503 otherwise; a check that finds the flag set returns true
\* without the probe and clears the flag, so the first check and every check
\* that directly follows a check runs the probe and returns what the probe
\* says; the flag starts unset and a decode step of the scheduler sets it for
\* the next check.
C12_Health ==
    /\ \A i \in DOMAIN health_log :
          LET e == health_log[i] IN
          e.kind = "check" =>
              /\ e.resp.status = (IF e.value THEN 200 ELSE 503)
              /\ e.flag => (e.value /\ ~e.probed)
              /\ ~e.flag => (e.probed /\ (e.value <=> e.up))
              /\ (i = 1 \/ health_log[i - 1].kind = "check") =>
                    (~e.flag /\ e.probed /\ (e.value <=> e.up))
              /\ (i > 1 /\ health_log[i - 1].kind = "decode") => e.flag
    /\ health_log = <<>> => ~generation_health
    /\ health_log # <<>> =>
          (generation_health <=> Last(health_log).kind = "decode")

\* a decode step, a check answered 200 from the flag, then a check whose
\* probe fails and is answered 503
C12_Witness ==
    /\ Len(health_log) >= 3
    /\ \E i \in 1..(Len(health_log) - 2) :
          /\ health_log[i].kind = "decode"
          /\ health_log[i + 1].kind = "check"
          /\ health_log[i + 1].resp.status = 200
          /\ ~health_log[i + 1].probed
          /\ ~health_log[i + 1].up
          /\ health_log[i + 2].kind = "check"
          /\ health_log[i + 2].probed
          /\ health_log[i + 2].resp.status = 503

\* C13: POST /v1/completions with a suffix is answered 422 with error_type
\* "suffix not supported", whatever stream and max_tokens are; no generation
\* is started for it and it never owns a permit.
C13_SuffixRefused ==
    (http.route = "/v1/completions" /\ http.suffix /\ pc # "routed") =>
        /\ pc = "responded"
        /\ resp.status = 422
        /\ resp.body = "ErrorResponse"
        /\ resp.error_type = "suffix not supported"
        /\ gens = <<>>
        /\ events = <<>>
        /\ received = <<>>
        /\ ~everHeld
        /\ permit = 0

\* a streaming completion with a suffix and max_tokens, refused
C13_Witness ==
    /\ http.route = "/v1/completions"
    /\ http.suffix
    /\ http.stream
    /\ http.max_tokens # None
    /\ pc = "responded"
    /\ resp.status = 422
    /\ available + others = MaxConcurrentRequests

\* C14: on /v1/completions and /v1/chat/completions the internal request
\* carries max_new_tokens = max_tokens when max_tokens is given and 100 when
\* it is absent; it is never unset.
C14_MaxNewTokens ==
    (/\ http.route \in {"/v1/completions", "/v1/chat/completions"}
     /\ (gens # <<>> \/ resp.body = "event-stream")) =>
        LET g == GenerateRequest(http) IN
        /\ g.max_new_tokens # None
        /\ http.max_tokens # None => g.max_new_tokens = http.max_tokens
        /\ http.max_tokens = None => g.max_new_tokens = 100

\* a chat completion posted without max_tokens and generated with 100
C14_Witness ==
    /\ http.route = "/v1/chat/completions"
    /\ http.max_tokens = None
    /\ pc = "responded"
    /\ Len(gens) = 1
    /\ gens[1].st = "ok"
    /\ GenerateRequest(http).max_new_tokens = 100

\* C15: on /v1/chat/completions a presence_penalty p in [-2, 2] gives
\* repetition_penalty p + 2, which lies in [0, 4]; without presence_penalty
\* repetition_penalty is unset.
C15_RepetitionPenalty ==
    (posted.route = "/v1/chat/completions" /\ built.ok) =>
        LET p == posted.presence_penalty
            r == built.generate_request.repetition_penalty
        IN
        /\ p = Absent => r = Absent
        /\ \A x \in p :
              (-2 * PenaltyScale <= x /\ x <= 2 * PenaltyScale) =>
                  /\ r = Some(x + 2 * PenaltyScale)
                  /\ \A y \in r : 0 <= y /\ y <= 4 * PenaltyScale

\* presence_penalty -2 became repetition_penalty 0
C15_Witness ==
    /\ posted.route = "/v1/chat/completions"
    /\ built.ok
    /\ posted.presence_penalty = Some(-2 * PenaltyScale)
    /\ built.generate_request.repetition_penalty = Some(0)

\* C16: once its template is rendered, a chat request gets a grammar exactly
\* when tools and tool_choice are both present; a choice naming a function
\* gives the grammar of that one tool, one-of the grammar of all tools, and a
\* choice naming no tool of the request is refused with 422 "Tool not found"
\* and nothing is generated for it.
C16_ToolGrammar ==
    (posted.route = "/v1/chat/completions" /\ built # NotBuilt /\ posted.template_ok) =>
        LET both == posted.tools # Absent /\ posted.tool_choice # Absent
            tools == Unwrap(posted.tools)
            choice == Unwrap(posted.tool_choice)
            named == both /\ choice.t = "FunctionName"
            missing == named /\ \A i \in DOMAIN tools : tools[i].name # choice.name
            grammar == built.generate_request.grammar
        IN
        /\ missing =>
              /\ ~built.ok
              /\ built.status = 422
              /\ built.error_type = "Tool not found"
              /\ answered = NotAnswered
        /\ ~missing => (built.ok /\ (grammar # Absent <=> both))
        /\ (named /\ ~missing) =>
              LET g == Unwrap(grammar)
                  first == CHOOSE i \in DOMAIN tools :
                              /\ tools[i].name = choice.name
                              /\ \A j \in 1..(i - 1) : tools[j].name # choice.name
              IN
              /\ built.tools_to_use = <<tools[first]>>
              /\ DOMAIN g.functions = {choice.name}
              /\ g.functions[choice.name] = tools[first].parameters
              /\ g.function = <<"#/$functions/" \o choice.name>>
        /\ (both /\ ~named) =>
              LET g == Unwrap(grammar) IN
              /\ built.tools_to_use = tools
              /\ DOMAIN g.functions = {tools[i].name : i \in DOMAIN tools}
              /\ Len(g.function) = Len(tools)
              /\ \A i \in DOMAIN tools : g.function[i] = "#/$functions/" \o tools[i].name

\* two tools, the second one chosen by name: the grammar of that tool alone
C16_Witness ==
    /\ posted.route = "/v1/chat/completions"
    /\ built.ok
    /\ posted.tools # Absent /\ posted.tool_choice # Absent
    /\ Len(Unwrap(posted.tools)) = 2
    /\ Unwrap(posted.tool_choice).t = "FunctionName"
    /\ Unwrap(posted.tools)[1].name # Unwrap(posted.tool_choice).name
    /\ built.generate_request.grammar # Absent
    /\ Len(Unwrap(built.generate_request.grammar).function) = 1

\* C17 as stated: `$functions` maps the name of each selected tool to that
\* tool's parameters, properties.function holds one $ref per selected tool,
\* and every $ref names a key of `$functions`.
C17_EachToolItsParameters ==
    (posted.route = "/v1/chat/completions" /\ built.ok /\
     built.generate_request.grammar # Absent) =>
        LET g == Unwrap(built.generate_request.grammar)
            ts == built.tools_to_use
        IN
        /\ \A i \in DOMAIN ts :
              /\ ts[i].name \in DOMAIN g.functions
              /\ g.functions[ts[i].name] = ts[i].parameters
        /\ Len(g.function) = Len(ts)
        /\ \A i \in DOMAIN ts : g.function[i] = "#/$functions/" \o ts[i].name
        /\ \A i \in DOMAIN g.function :
              \E k \in DOMAIN g.functions : g.function[i] = "#/$functions/" \o k

\* C17 as amended: `$functions` has one key per name among the selected
\* tools, mapped to the parameters of the last selected tool of that name;
\* properties.function holds one $ref per selected tool, in order, and every
\* $ref names a key of `$functions`.
C17_LastToolOfAName ==
    (posted.route = "/v1/chat/completions" /\ built.ok /\
     built.generate_request.grammar # Absent) =>
        LET g == Unwrap(built.generate_request.grammar)
            ts == built.tools_to_use
        IN
        /\ DOMAIN g.functions = {ts[i].name : i \in DOMAIN ts}
        /\ \A i \in DOMAIN ts :
              (\A j \in DOMAIN ts : j > i => ts[j].name # ts[i].name) =>
                  g.functions[ts[i].name] = ts[i].parameters
        /\ Len(g.function) = Len(ts)
        /\ \A i \in DOMAIN ts : g.function[i] = "#/$functions/" \o ts[i].name
        /\ \A i \in DOMAIN g.function :
              \E k \in DOMAIN g.functions : g.function[i] = "#/$functions/" \o k

\* one-of over two tools of the same name and different parameters: one key,
\* two $refs
C17_Witness ==
    /\ posted.route = "/v1/chat/completions"
    /\ built.ok
    /\ Len(built.tools_to_use) = 2
    /\ built.tools_to_use[1].name = built.tools_to_use[2].name
    /\ built.tools_to_use[1].parameters # built.tools_to_use[2].parameters
    /\ built.generate_request.grammar # Absent
    /\ Cardinality(DOMAIN Unwrap(built.generate_request.grammar).functions) = 1
    /\ Len(Unwrap(built.generate_request.grammar).function) = 2

\* C18: a non-streaming chat request with a tool grammar whose generated text
\* is JSON is answered with no content and one tool call named "tools" whose
\* parameters are the `function` member of the JSON if it has one and the
\* whole JSON otherwise; if the text is no JSON it is answered 422; without a
\* tool grammar the answer carries the text and no tool call.
C18_ToolCall ==
    (posted.route = "/v1/chat/completions" /\ answered # NotAnswered) =>
        LET text == Unwrap(answered.generated_text)
            grammar == built.generate_request.grammar
        IN
        /\ ~posted.stream
        /\ (grammar # Absent /\ text.valid) =>
              /\ answered.status = 200
              /\ answered.content = Absent
              /\ Len(answered.tool_calls) = 1
              /\ answered.tool_calls[1].name = "tools"
              /\ answered.tool_calls[1].parameters =
                    IF text.json.kind = "object" /\ "function" \in DOMAIN text.json.members
                    THEN text.json.members["function"]
                    ELSE text.json
        /\ (grammar # Absent /\ ~text.valid) =>
              /\ answered.status = 422
              /\ answered.content = Absent
              /\ answered.tool_calls = <<>>
        /\ grammar = Absent =>
              /\ answered.status = 200
              /\ answered.content = Some(text)
              /\ answered.tool_calls = <<>>

\* the text {"function": {"city": "Paris"}} answered as one tool call with
\* parameters {"city": "Paris"}
C18_Witness ==
    /\ posted.route = "/v1/chat/completions"
    /\ built.generate_request.grammar # Absent
    /\ answered.status = 200
    /\ Len(answered.tool_calls) = 1
    /\ answered.tool_calls[1].parameters # Unwrap(answered.generated_text).json
    /\ answered.tool_calls[1].parameters.kind = "object"
    /\ "city" \in DOMAIN answered.tool_calls[1].parameters.members

\* C19: POST / passes on the posted parameters with return_full_text set to
\* the deployment default only if the request left it unset; with stream it
\* goes on as POST /generate_stream does (200, event stream, no call of
\* `generate`), without stream it calls `generate` once and answers with its
\* response in a one-element array, or with its error.
C19_Converted ==
    http.route = "/" =>
        LET g == GenerateRequest(http) IN
        /\ g.return_full_text =
              IF http.return_full_text = Absent
              THEN Some(http.default_return_full_text)
              ELSE http.return_full_text
        /\ g.best_of = http.best_of
        /\ g.details = http.details
        /\ g.decoder_input_details = http.decoder_input_details
        /\ http.stream => (gens = <<>> /\ pc \notin {"generate", "responded"})
        /\ ~http.stream => (events = <<>> /\ Len(gens) <= 1)
        /\ (~http.stream /\ pc = "responded") =>
              /\ gens[1].st = "ok" =>
                    resp = OkResponse("Vec<GenerateResponse>", gens[1].details)
              /\ gens[1].st = "err" => resp = ErrorResponse(gens[1].err)

C19_Dispatch ==
    (pc = "routed" /\ http.route = "/" /\ pc' # "routed") =>
        IF http.stream
        THEN /\ pc' = "stream"
             /\ resp' = OkResponse("event-stream", FALSE)
             /\ gens' = <<>>
        ELSE /\ pc' = "generate"
             /\ gens' = <<NewCall>>
             /\ resp' = NoResponse
             /\ metrics' = metrics

\* C19: POST / converts the request as stated in every state, and every step
\* of compat_generate hands it to generate_stream or to generate according to
\* `stream`.
C19_Compat == []C19_Converted /\ [][C19_Dispatch]_vars

\* a non-streaming POST / that kept return_full_text = false against a
\* default of true and was answered with an array
C19_Witness ==
    /\ http.route = "/"
    /\ ~http.stream
    /\ http.return_full_text = Some(FALSE)
    /\ http.default_return_full_text
    /\ GenerateRequest(http).return_full_text = Some(FALSE)
    /\ pc = "responded"
    /\ resp.body = "Vec<GenerateResponse>"

\* C20: POST /tokenize answers 404 when there is no tokenizer; with one it
\* answers one entry per token id, in order, and the text of each entry is
\* the characters of the input from offset start up to offset stop.
C20_Tokenize ==
    (posted.route = "/tokenize" /\ answered # NotAnswered /\ posted.tokenized.ok) =>
        IF posted.tokenized.encoding = Absent
        THEN answered.status = 404 /\ answered.tokens = <<>>
        ELSE LET encoding == Unwrap(posted.tokenized.encoding)
                 tokens == answered.tokens
             IN
             /\ answered.status = 200
             /\ Len(tokens) = Len(encoding.ids)
             /\ \A i \in DOMAIN tokens :
                   /\ tokens[i].id = encoding.ids[i]
                   /\ tokens[i].start = encoding.offsets[i][1]
                   /\ tokens[i].stop = encoding.offsets[i][2]
                   /\ Len(tokens[i].text) = tokens[i].stop - tokens[i].start
                   /\ \A k \in 1..Len(tokens[i].text) :
                         tokens[i].text[k] = posted.inputs[tokens[i].start + k]

\* an input of two characters tokenized into two entries, the second being
\* its second character
C20_Witness ==
    /\ posted.route = "/tokenize"
    /\ answered.status = 200
    /\ Len(posted.inputs) = 2
    /\ Len(answered.tokens) = 2
    /\ answered.tokens[2].start = 1
    /\ answered.tokens[2].stop = 2
    /\ answered.tokens[2].text = <<posted.inputs[2]>>
    /\ answered.tokens[1].id # answered.tokens[2].id

Vertex == http.route = "/vertex"

AllOk == \A i \in DOMAIN gens : gens[i].st = "ok"

C25_PredictionsInInstanceOrder ==
    (Vertex /\ pc = "responded" /\ resp.status = 200) =>
        \A i \in DOMAIN resp.predictions : resp.predictions[i] = i

\* The streaming request fails one of the two pre-checks.
Prechecked == Streaming /\ StreamPrecheck(GenerateRequest(http)) # "ok"

\* C24: a streaming request with best_of different from 1 (0 included) or
\* with decoder_input_details set gets a stream of exactly one event, a
\* validation error (the best_of message first when both apply);
\* infer.generate_stream is never called (no permit, nothing received) and no
\* IncompleteGeneration event follows.
C24_PrecheckRefusal ==
    (Prechecked /\ pc \notin {"idle", "routed"}) =>
        LET g == GenerateRequest(http)
            message == IF g.best_of \notin {None, 1} THEN "BestOfStream"
                       ELSE "PrefillDetailsStream"
        IN
        /\ ~everHeld /\ permit = 0
        /\ received = <<>> /\ index = 0
        /\ metrics.incomplete = 0 /\ metrics.success = 0
        /\ \A i \in DOMAIN events : events[i].err # "IncompleteGeneration"
        /\ pc = "stream" => events = <<>>
        /\ pc \in {"yield_fin", "done"} =>
              events = <<ErrorEvent("ValidationError", message)>>
        /\ pc \in {"stream", "yield_fin", "done", "dropped"}
        /\ Len(events) <= 1

\* A stream asked with best_of = 0 has ended after its single event.
C24_Witness ==
    /\ Streaming /\ http.best_of = 0 /\ pc = "done"
    /\ Len(events) = 1 /\ events[1].error = "BestOfStream"

\* The request has been answered, or its stream has come to its end.
Answered == pc \in {"responded", "done"}

\* C26 (as claimed): whatever the route and whether it succeeds or fails, a
\* generation request has incremented tgi_request_count exactly once by the
\* time it has been answered.
C26_CountedOnce == Answered => metrics.count = 1

\* The routes that build their GenerateRequest themselves
Adapter == http.route \in {"/v1/completions", "/v1/chat/completions", "/vertex"}

\* C27: for a request built by completions, chat_completions or
\* vertex_compatibility every successful call of `generate` returns a
\* response whose details are present: the 500 "No details in generation" of
\* completions is never answered and the `details.unwrap()` of
\* chat_completions never panics.
C27_DetailsPresent ==
    (Adapter /\ ~Streaming) =>
        /\ WantDetails(GenerateRequest(http))
        /\ \A i \in DOMAIN gens : gens[i].st = "ok" => gens[i].details
        /\ resp.error_type # "no details"
        /\ ~HandlerPanics(http, WantDetails(GenerateRequest(http)))
        /\ pc = "panicked" => \E i \in DOMAIN gens : gens[i].st = "panic"
        /\ (pc = "responded" /\ gens # <<>> /\ AllOk) => resp.status = 200

\* chat_completions has answered from a generation that carries its details.
C27_Witness ==
    /\ http.route = "/v1/chat/completions" /\ ~http.stream
    /\ pc = "responded" /\ resp.status = 200
    /\ gens # <<>> /\ gens[1].st = "ok" /\ gens[1].details

\* A streaming request on /v1/completions or /v1/chat/completions
OpenAIStream ==
    http.route \in {"/v1/completions", "/v1/chat/completions"} /\ http.stream

\* C28: a streaming request on /v1/completions or /v1/chat/completions is
\* never refused by the pre-checks of the stream: its GenerateRequest has
\* best_of unset and decoder_input_details = FALSE, so once the stream is
\* polled it goes on to infer.generate_stream (which takes a permit or
\* answers Overloaded).
C28_OpenAIStreamPasses ==
    OpenAIStream =>
        LET g == GenerateRequest(http) IN
        /\ g.best_of = None /\ ~g.decoder_input_details
        /\ StreamPrecheck(g) = "ok"
        /\ \A i \in DOMAIN events :
              events[i].error \notin {"BestOfStream", "PrefillDetailsStream"}
        /\ pc \in {"validating", "loop", "yield_tok", "yield_brk", "yield_err",
                   "yield_fin", "done", "panicked"} =>
              \/ everHeld
              \/ events # <<>> /\ events[1].err = "Overloaded"

\* A chat completion streamed to its End event.
C28_Witness ==
    /\ OpenAIStream /\ http.route = "/v1/chat/completions"
    /\ end_reached /\ pc = "done"

ErrorEvents == {i \in DOMAIN events : events[i].kind = "error"}

Delivered(t) == \E i \in DOMAIN received : received[i].t = t

\* C29: in one streaming request tgi_request_success is incremented at most
\* once and only when an End item was received; an error event and the
\* success counter exclude each other; the "incomplete" failure counter is
\* incremented (at most once) only when neither an End nor an error occurred.
C29_StreamCounters ==
    Streaming =>
        /\ metrics.success <= 1
        /\ metrics.success = 1 =>
              /\ end_reached
              /\ received # <<>> /\ Last(received).t = "End"
              /\ Count({i \in DOMAIN events : events[i].kind = "end"}) <= 1
        /\ ~(metrics.success >= 1 /\ ErrorEvents # {})
        /\ metrics.incomplete <= 1
        /\ metrics.incomplete = 1 =>
              /\ ~end_reached /\ ~error
              /\ ~Delivered("End") /\ ~Delivered("Err")
              /\ metrics.success = 0
              /\ ErrorEvents = {Len(events)}
              /\ Last(events).err = "IncompleteGeneration"
        /\ (end_reached \/ error) => metrics.incomplete = 0

\* The channel closed after a token without an End: counted as incomplete.
C29_Witness ==
    /\ Streaming /\ pc = "done" /\ metrics.incomplete = 1
    /\ Delivered("Intermediate") /\ Delivered("Closed")

\* What the entries resident in shard memory may come to hold
ResidentTokens ==
    Sum([i \in DOMAIN batch |-> batch[i].input_length + batch[i].max_new_tokens])

PullBudgets ==
    IF phase = "idle"
    THEN [prefill |-> max_batch_prefill_tokens, token |-> max_batch_total_tokens]
    ELSE LET left == max_batch_total_tokens - BatchMaxTokens(batch) IN
         [prefill |-> Min(max_batch_prefill_tokens, left), token |-> left]

\* The ids in the queue are strictly increasing and below the next id.
C23_QueueOrdered ==
    /\ \A i, j \in DOMAIN queue : i < j => queue[i].id < queue[j].id
    /\ \A i \in DOMAIN queue : queue[i].id < next_id
    /\ \A i \in DOMAIN batch : batch[i].id < next_id
    /\ Ids(queue) \cap Ids(batch) = {}

\* One step of the queue: an insertion gives the entry the next id, above
\* every id in the queue; a batch is made of entries of the queue in
\* insertion order, none of them closed; no open entry stays in the queue
\* before a batched one while the budgets allowed it; the closed entries the
\* scan passed are gone from the queue and are in no batch.
C23_QueueStep ==
    LET new == Ids(batch') \ Ids(batch)
        gone == Ids(queue) \ Ids(queue')
        at(id) == CHOOSE i \in DOMAIN queue : queue[i].id = id
        before(i) == SelectSeq(SubSeq(queue, 1, i - 1), LAMBDA e : e.id \in new)
    IN
    /\ next_id' # next_id =>
          /\ next_id' = next_id + 1
          /\ Len(queue') = Len(queue) + 1
          /\ SubSeq(queue', 1, Len(queue)) = queue
          /\ queue'[Len(queue')].id = next_id
          /\ \A i \in DOMAIN queue : queue[i].id < next_id
    /\ new \subseteq Ids(queue)
    /\ \A id \in new : ~queue[at(id)].closed
    /\ \A i, j \in DOMAIN batch' :
          (i < j /\ batch'[i].id \in new /\ batch'[j].id \in new)
              => batch'[i].id < batch'[j].id
    /\ \A i, j \in DOMAIN queue :
          (i < j /\ queue[j].id \in new /\ queue[i].id \notin new /\ ~queue[i].closed)
              => ~Fits(Append(before(i), queue[i]), PullBudgets.prefill,
                       PullBudgets.token)
    /\ \A i, j \in DOMAIN queue :
          (i < j /\ queue[j].id \in new /\ queue[i].closed)
              => queue[i].id \in gone /\ queue[i].id \notin Ids(batch')
    /\ \A id \in gone : id \in new \/ queue[at(id)].closed
    /\ \A i, j \in DOMAIN queue' :
          i < j => queue'[i].id < queue'[j].id

\* C23: queue batching is FIFO: ids are given in strictly increasing order at
\* insertion, next_batch takes entries in insertion order and leaves no
\* entry behind a batched one that the budgets allowed, and entries whose
\* response channel is closed are dropped, not batched.
C23_Fifo == []C23_QueueOrdered /\ [][C23_QueueStep]_vars

\* A first batch of entries 0 and 2: the closed entry 1 between them was
\* dropped by the scan.
C23_Witness ==
    /\ phase = "filter" /\ waiting_tokens = 0
    /\ next_id = 3
    /\ Ids(batch) = {0, 2}
    /\ batch[1].id = 0

====
